---- MODULE Spec2Model ----
(***************************************************************************)
(* Save_File_Monitor: the poll loop of main(), the per-archive ingestion   *)
(* of process_zip() and the ledger and table helpers of dashboard/utils.   *)
(*                                                                         *)
(* An archive member is modelled by the outcome of opening, decoding and   *)
(* json-parsing it (absent, unparseable, or the parsed fields the code     *)
(* reads).  A table is the sequence of its rows.  Numbers that the code    *)
(* handles as floats are integers here; a quotient is an exact fraction.   *)
(***************************************************************************)
EXTENDS Integers, Sequences, FiniteSets, TLC

\* ------------------------------------------------------------------ bounds
MaxDrops    == 2   \* files the environment drops into the watched folder (Spec)
MaxFiles    == 2   \* archives waiting in the watched folder at the start (SpecIngest)
MaxRestarts == 1   \* times the poller is killed and started again
MaxEntities == 4   \* per-entity members of an archive of ExtractArchives
MaxZones    == 2   \* zone objects of a pellets member of ExtractArchives
MaxPellets  == 2   \* pellet objects of one zone of ExtractArchives
MaxBytes    == 4   \* bytes of a member handed to the lossy decode (SpecDecode)

\* ------------------------------------------------------------- generic helpers
SeqsUpTo(S, n) == UNION {[1..k -> S] : k \in 0..n}

RECURSIVE Gcd(_, _)
Gcd(a, b) == IF b = 0 THEN a ELSE Gcd(b, a % b)

RECURSIVE Perms(_)
\* every order in which a directory listing can return the set S
Perms(S) ==
  IF S = {} THEN {<<>>}
  ELSE UNION {{<<x>> \o p : p \in Perms(S \ {x})} : x \in S}

\* ------------------------------------------------------------- file names
\* A directory entry: optional leading blank, stem, extension after the dot.
Names ==
  { [pad |-> FALSE, stem |-> "a", ext |-> "zip"],
    [pad |-> FALSE, stem |-> "b", ext |-> "ZIP"],
    [pad |-> TRUE,  stem |-> "a", ext |-> "zip"],
    [pad |-> FALSE, stem |-> "notes", ext |-> "txt"] }

\* str.lower() on the extension
Lower(ext) == IF ext = "ZIP" THEN "zip" ELSE ext

\* f.lower().endswith(".zip")
IsZipName(n) == Lower(n.ext) = "zip"

\* str.strip() on a ledger line: the newline and any surrounding blanks go
Strip(n) == [n EXCEPT !.pad = FALSE]

\* ------------------------------------------------------------- json values
Str(s)  == [ty |-> "str", s |-> s, v |-> 0]
Num(v)  == [ty |-> "num", s |-> "", v |-> v]
Null    == [ty |-> "null", s |-> "", v |-> 0]

DEFAULT_SIM == "default_sim"
Unknown     == Str("Unknown")

Sims == {"simA", "simB", DEFAULT_SIM}

NoId == 0            \* a species description or entity without "speciesID"

\* ------------------------------------------------------------- tables
EmptyTables == [species |-> <<>>, counts |-> <<>>, pellets |-> <<>>]
TableNames  == {"species", "counts", "pellets"}

\* a fraction in lowest terms; Zero is the literal 0 of the zero-count guard
Zero == [num |-> 0, den |-> 1]
Frac(n, d) == LET g == Gcd(n, d) IN [num |-> n \div g, den |-> d \div g]

\* ------------------------------------------------------------- settings stage
\* process_zip lines 21-36: the identity, or the default on any failure.
\* The result is the python value bound to sim_name.
SimNameOf(settings) ==
  CASE settings.kind = "absent"     -> Str(DEFAULT_SIM)   \* KeyError from z.open
    [] settings.kind = "garbage"    -> Str(DEFAULT_SIM)   \* json.loads raises
    [] settings.kind = "nozones"    -> Str(DEFAULT_SIM)   \* .get default []
    [] settings.kind = "emptyzones" -> Str(DEFAULT_SIM)
    [] settings.kind = "notlist"    -> Str(DEFAULT_SIM)
    [] settings.kind = "noname"     -> Str(DEFAULT_SIM)   \* zones[0].get default
    [] settings.kind = "notobject"  -> Str(DEFAULT_SIM)   \* zones[0] has no .get
    [] settings.kind = "named"      -> settings.name      \* the value as it is
    [] OTHER                        -> Str(DEFAULT_SIM)

\* os.path.join(simulations_base_folder, sim_name) raises unless sim_name is a str
JoinRaises(sim_name) == sim_name.ty # "str"

\* ------------------------------------------------------------- species stage
RECURSIVE KeepFirst(_, _)
\* the first row of each key, in row order (rows without the key hold NaN there,
\* and NaN is one key)
KeepFirst(rows, seen) ==
  IF rows = <<>> THEN <<>>
  ELSE IF Head(rows).id \in seen
       THEN KeepFirst(Tail(rows), seen)
       ELSE <<Head(rows)>> \o KeepFirst(Tail(rows), seen \cup {Head(rows).id})

\* the frame has a speciesID column iff some row was built from a dict with the key
HasIdColumn(rows) == \E i \in DOMAIN rows : rows[i].id # NoId

\* keep="last" instead of the default keep="first"
KeepLastDuplicates(rows) ==
  LET Rev(s) == [i \in 1..Len(s) |-> s[Len(s) + 1 - i]]
  IN  Rev(KeepFirst(Rev(rows), {}))

\* the drop_duplicates call left out
NoDropDuplicates(rows) == rows

\* DataFrame.drop_duplicates(subset=["speciesID"]).reset_index(drop=True)
DropDuplicates(rows) == KeepFirst(rows, {})

\* process_zip lines 50-65
SpeciesStage(species_df, member) ==
  IF member.kind # "list" \/ member.recs = <<>>
  THEN species_df                      \* absent, unparseable, no key, empty list
  ELSE LET cat == species_df \o member.recs     \* lines 55-59, already assigned
       IN  IF HasIdColumn(cat)
           THEN DropDuplicates(cat)              \* line 60
           ELSE cat                              \* line 60 raises KeyError, line 64

\* ------------------------------------------------------------- scene stage
\* process_zip lines 68-81
UpdateTimeOf(scene) ==
  IF scene.kind = "value" /\ scene.t.ty # "null"
  THEN scene.t                         \* line 77: the raw value as it is
  ELSE Unknown                         \* line 81

\* ------------------------------------------------------------- count stage
\* line 84: members under bibites/ ending in .bb8
IsBb8(m) == m.path = "bibites"

RECURSIVE SpeciesIdsUntilFailure(_)
\* a loop that ends at the first member it cannot use
SpeciesIdsUntilFailure(entities) ==
  IF entities = <<>> THEN <<>>
  ELSE LET m == Head(entities)
       IN  IF ~IsBb8(m) THEN SpeciesIdsUntilFailure(Tail(entities))
           ELSE IF m.kind = "id" THEN <<m.id>> \o SpeciesIdsUntilFailure(Tail(entities))
           ELSE <<>>

RECURSIVE SpeciesIdsOf(_)
\* lines 85-99: the identifiers appended, in member order
SpeciesIdsOf(entities) ==
  IF entities = <<>> THEN <<>>
  ELSE LET m == Head(entities)
       IN  (IF IsBb8(m) /\ m.kind = "id" THEN <<m.id>> ELSE <<>>)
           \o SpeciesIdsOf(Tail(entities))

\* a tally that misses the first member
OccurrencesAfterFirst(ids, x) == Cardinality({i \in DOMAIN ids : i > 1 /\ ids[i] = x})

Occurrences(ids, x) == Cardinality({i \in DOMAIN ids : ids[i] = x})

RECURSIVE Distinct(_, _)
Distinct(ids, seen) ==
  IF ids = <<>> THEN <<>>
  ELSE IF Head(ids) \in seen
       THEN Distinct(Tail(ids), seen)
       ELSE <<Head(ids)>> \o Distinct(Tail(ids), seen \cup {Head(ids)})

RECURSIVE InsertByCount(_, _)
\* stable insertion, larger counts first
InsertByCount(sorted, r) ==
  IF sorted = <<>> THEN <<r>>
  ELSE IF Head(sorted).count >= r.count
       THEN <<Head(sorted)>> \o InsertByCount(Tail(sorted), r)
       ELSE <<r>> \o sorted

RECURSIVE SortByCount(_)
SortByCount(rows) ==
  IF rows = <<>> THEN <<>>
  ELSE InsertByCount(SortByCount(SubSeq(rows, 1, Len(rows) - 1)), rows[Len(rows)])


\* pd.Series(species_ids).value_counts(): one entry per distinct value, by count
ValueCounts(ids) ==
  LET keys == Distinct(ids, {})
  IN  SortByCount([i \in 1..Len(keys) |->
                    [speciesID |-> keys[i], count |-> Occurrences(ids, keys[i])]])

\* process_zip lines 101-111
CountStage(counts_df, entities, update_time) ==
  LET species_ids  == SpeciesIdsOf(entities)
      count_series == ValueCounts(species_ids)
      new_counts   == [i \in 1..Len(count_series) |->
                        [update_time |-> update_time,
                         speciesID   |-> count_series[i].speciesID,
                         count       |-> count_series[i].count]]
  IN  IF species_ids # <<>> THEN counts_df \o new_counts ELSE counts_df

\* ------------------------------------------------------------- pellet stage
\* a three-way taxonomy that files only "Plant" under Plant
IsNotPlant(p) == p.material # "Plant"

\* line 136: pellet["pellet"]["material"] == "Meat"
IsMeat(p) == p.material = "Meat"

RECURSIVE SumOver(_, _, _)
\* the accumulators of lines 129-143 over one zone's pellets
SumOver(pellets, meat, field) ==
  IF pellets = <<>> THEN 0
  ELSE LET p == Head(pellets)
           x == IF IsMeat(p) = meat
                THEN (CASE field = "count"  -> 1
                        [] field = "amount" -> p.amount
                        [] field = "scale"  -> p.scale)
                ELSE 0
       IN  x + SumOver(Tail(pellets), meat, field)

\* a division by zero raises ZeroDivisionError
Raises == [num |-> 0, den |-> 0]
Divide(n, d) == IF d = 0 THEN Raises ELSE Frac(n, d)

\* the quotient without the zero-count guard
UnguardedAvg(scale, count) == Divide(scale, count)

\* lines 148 and 151: scale/count if count > 0 else 0
AvgScale(scale, count) == IF count > 0 THEN Divide(scale, count) ELSE Zero

\* lines 135-143 raise KeyError, TypeError or ValueError on a zone or pellet
\* without the fields read; line 145 raises KeyError without "zone"
ZoneRaises(zone) ==
  \/ ~zone.hasPellets
  \/ \E i \in DOMAIN zone.pellets : ~zone.pellets[i].ok
  \/ ~zone.hasZone

\* the summed scale emitted in place of the average
ZoneRowUndivided(zone, update_time) ==
  LET plant_count == SumOver(zone.pellets, FALSE, "count")
      meat_count  == SumOver(zone.pellets, TRUE, "count")
  IN  [update_time        |-> update_time,
       zone_name          |-> zone.zone,
       plant_pellet_count |-> plant_count,
       plant_total_amount |-> SumOver(zone.pellets, FALSE, "amount"),
       plant_avg_scale    |-> Frac(SumOver(zone.pellets, FALSE, "scale"), 1),
       meat_pellet_count  |-> meat_count,
       meat_total_amount  |-> SumOver(zone.pellets, TRUE, "amount"),
       meat_avg_scale     |-> Frac(SumOver(zone.pellets, TRUE, "scale"), 1)]

\* a row stamped with the sentinel instead of the time of the call
ZoneRowUnstamped(zone, update_time) ==
  LET plant_count == SumOver(zone.pellets, FALSE, "count")
      meat_count  == SumOver(zone.pellets, TRUE, "count")
  IN  [update_time        |-> Unknown,
       zone_name          |-> zone.zone,
       plant_pellet_count |-> plant_count,
       plant_total_amount |-> SumOver(zone.pellets, FALSE, "amount"),
       plant_avg_scale    |-> AvgScale(SumOver(zone.pellets, FALSE, "scale"), plant_count),
       meat_pellet_count  |-> meat_count,
       meat_total_amount  |-> SumOver(zone.pellets, TRUE, "amount"),
       meat_avg_scale     |-> AvgScale(SumOver(zone.pellets, TRUE, "scale"), meat_count)]

\* lines 128-162: the row of one zone
ZoneRow(zone, update_time) ==
  LET plant_count == SumOver(zone.pellets, FALSE, "count")
      meat_count  == SumOver(zone.pellets, TRUE, "count")
  IN  [update_time        |-> update_time,
       zone_name          |-> zone.zone,
       plant_pellet_count |-> plant_count,
       plant_total_amount |-> SumOver(zone.pellets, FALSE, "amount"),
       plant_avg_scale    |-> AvgScale(SumOver(zone.pellets, FALSE, "scale"), plant_count),
       meat_pellet_count  |-> meat_count,
       meat_total_amount  |-> SumOver(zone.pellets, TRUE, "amount"),
       meat_avg_scale     |-> AvgScale(SumOver(zone.pellets, TRUE, "scale"), meat_count)]

\* line 119: pellet_data.get("pellets", [])
ZonesOf(member) == IF member.kind = "list" THEN member.zones ELSE <<>>

\* lines 128-162: the frame new_zones, one row per zone object
NewZones(member, update_time) ==
  LET zones == ZonesOf(member)
  IN  [i \in 1..Len(zones) |-> ZoneRow(zones[i], update_time)]

\* lines 114-162 raise: the member is missing or not json, a zone or pellet lacks a
\* field, or a quotient is undefined
PelletRaises(member, update_time) ==
  LET zones == ZonesOf(member)
      rows  == NewZones(member, update_time)
  IN  \/ member.kind \in {"absent", "garbage"}
      \/ \E i \in DOMAIN zones : ZoneRaises(zones[i])
      \/ \E i \in DOMAIN zones :
           rows[i].plant_avg_scale = Raises \/ rows[i].meat_avg_scale = Raises

\* an except branch that prints and falls through to the save
PelletStageFallThrough(pellet_df, member, update_time) ==
  IF PelletRaises(member, update_time)
  THEN [ok |-> TRUE, df |-> pellet_df]
  ELSE [ok |-> TRUE, df |-> pellet_df \o NewZones(member, update_time)]

\* lines 113-169: [ok, df]; ok = FALSE is the except branch that returns None
PelletStage(pellet_df, member, update_time) ==
  IF PelletRaises(member, update_time)
  THEN [ok |-> FALSE, df |-> pellet_df]
  ELSE [ok |-> TRUE, df |-> pellet_df \o NewZones(member, update_time)]

\* ------------------------------------------------------------- storage
\* DataFrame.to_parquet raises on an object column that mixes numbers and strings
\* (update_time holds the raw simulatedTime or the string "Unknown")
Storable(rows) ==
  \A i, j \in DOMAIN rows : rows[i].update_time.ty = rows[j].update_time.ty

\* utils.load_dataframe: the stored rows, or an empty frame when the file is
\* missing or cannot be read
load_dataframe(stored, unreadable) == IF unreadable THEN <<>> ELSE stored

\* utils.save_dataframe: the file is rewritten in full unless the write raises,
\* and then the error is printed and the file stays as it was
save_dataframe(df, stored, storable, faulty) ==
  IF storable /\ ~faulty THEN df ELSE stored

\* the three files written without the simulation's subfolder in their path, so
\* that every simulation reads the same files
SaveShared(d, sim, tables) == [s \in DOMAIN d |-> tables]

\* lines 38-43 and 171-175: the three paths are built under
\* Dibite_Simulation_Data/<sim_name>, so the save rewrites the files of that
\* subfolder and no other
SaveUnder(d, sim, tables) == [d EXCEPT ![sim] = tables]

\* ------------------------------------------------------------- process_zip
\* The outcome of process_zip(zip_path) on storage d.
\*   readable: zipfile.ZipFile opens the file;  arc: the archive's members;
\*   lf, wf: the tables whose load, respectively write, fails in this call.
\* outcome: "unreadable" (line 177), "join" (line 39 raises, line 177),
\*          "pellet" (line 169), "saved" (line 176).
\* new_counts, new_zones: the frames of lines 103 and 153, the rows the call emits.
process_zip(d, readable, arc, lf, wf) ==
  LET sim_name == SimNameOf(arc.settings)
      none(why) == [outcome |-> why, sim |-> DEFAULT_SIM, disk |-> d,
                    written |-> {}, mkdir |-> FALSE,
                    new_counts |-> << >>, new_zones |-> << >>]
  IN
  IF ~readable THEN none("unreadable")
  ELSE IF JoinRaises(sim_name) THEN none("join")
  ELSE
    LET sim         == sim_name.s
        species_df0 == load_dataframe(d[sim].species, "species" \in lf)
        counts_df0  == load_dataframe(d[sim].counts,  "counts"  \in lf)
        pellet_df0  == load_dataframe(d[sim].pellets, "pellets" \in lf)
        species_df  == SpeciesStage(species_df0, arc.species)
        update_time == UpdateTimeOf(arc.scene)
        counts_df   == CountStage(counts_df0, arc.entities, update_time)
        pel         == PelletStage(pellet_df0, arc.pellets, update_time)
        ok(t)       == CASE t = "species" -> TRUE
                         [] t = "counts"  -> Storable(counts_df)
                         [] t = "pellets" -> Storable(pel.df)
        tables      == [species |-> save_dataframe(species_df, d[sim].species,
                                                   ok("species"), "species" \in wf),
                        counts  |-> save_dataframe(counts_df, d[sim].counts,
                                                   ok("counts"), "counts" \in wf),
                        pellets |-> save_dataframe(pel.df, d[sim].pellets,
                                                   ok("pellets"), "pellets" \in wf)]
        new_counts  == SubSeq(counts_df, Len(counts_df0) + 1, Len(counts_df))
        new_zones   == SubSeq(pel.df, Len(pellet_df0) + 1, Len(pel.df))
    IN  IF ~pel.ok
        THEN [none("pellet") EXCEPT !.sim = sim, !.new_counts = new_counts]
        ELSE [outcome |-> "saved", sim |-> sim,
              disk    |-> SaveUnder(d, sim, tables),
              written |-> {t \in TableNames : ok(t) /\ t \notin wf},
              mkdir   |-> TRUE,
              new_counts |-> new_counts, new_zones |-> new_zones]

\* ------------------------------------------------------------- ledger
\* utils.load_processed_log: the stripped non-empty lines of the file
load_processed_log(file) == {Strip(line) : line \in file}

\* utils.update_processed_log: one line per member of the set
update_processed_log(processed_set) == processed_set

\* ------------------------------------------------------------- archives
Named(sim) == [kind |-> "named", name |-> Str(sim)]
Settings(kind) == [kind |-> kind, name |-> Null]

Sp(id, val) == [id |-> id, val |-> val]
SpeciesList(recs) == [kind |-> "list", recs |-> recs]
SpeciesNone(kind) == [kind |-> kind, recs |-> <<>>]

SceneAt(t) == [kind |-> "value", t |-> Num(t)]
SceneNone(kind) == [kind |-> kind, t |-> Null]

Ent(id)     == [path |-> "bibites", kind |-> "id", id |-> id]
EntNoId     == [path |-> "bibites", kind |-> "noid", id |-> NoId]
EntGarbage  == [path |-> "bibites", kind |-> "garbage", id |-> NoId]
EntElsewhere == [path |-> "other", kind |-> "id", id |-> 1]

Pel(material, amount, scale) ==
  [ok |-> TRUE, material |-> material, amount |-> amount, scale |-> scale]
PelBroken == [ok |-> FALSE, material |-> "Meat", amount |-> 0, scale |-> 0]

Zone(name, pellets) ==
  [hasZone |-> TRUE, zone |-> name, hasPellets |-> TRUE, pellets |-> pellets]
ZoneNoName(pellets) ==
  [hasZone |-> FALSE, zone |-> "", hasPellets |-> TRUE, pellets |-> pellets]
ZoneNoPellets(name) ==
  [hasZone |-> TRUE, zone |-> name, hasPellets |-> FALSE, pellets |-> <<>>]

PelletList(zones) == [kind |-> "list", zones |-> zones]
PelletNone(kind) == [kind |-> kind, zones |-> <<>>]

Archive(settings, species, scene, entities, pellets) ==
  [readable |-> TRUE, settings |-> settings, species |-> species, scene |-> scene,
   entities |-> entities, pellets |-> pellets]

North == Zone("north", <<Pel("Meat", 1, 2), Pel("Meat", 1, 2), Pel("Plant", 5, 1)>>)

ArcA == Archive(Named("simA"), SpeciesList(<<Sp(1, "a"), Sp(2, "a")>>), SceneAt(1),
                <<Ent(1), Ent(1), Ent(2)>>, PelletList(<<North>>))
ArcB == Archive(Named("simA"), SpeciesList(<<Sp(1, "b"), Sp(3, "b"), Sp(3, "a")>>),
                SceneAt(2), <<Ent(3), EntNoId>>, PelletList(<<Zone("south", <<>>)>>))
\* species descriptions without an identifier, no scene, no pellets key
ArcNoIds == Archive(Named("simA"), SpeciesList(<<Sp(NoId, "a")>>), SceneNone("absent"),
                    <<EntGarbage, Ent(2)>>, PelletNone("nokey"))
\* no settings member, some descriptions without an identifier
ArcDefault == Archive(Settings("absent"), SpeciesList(<<Sp(2, "b"), Sp(NoId, "a"), Sp(NoId, "b")>>),
                      SceneAt(1), <<>>, PelletList(<<North, Zone("north", <<Pel("Egg", 2, 3)>>)>>))
\* descriptions with and without an identifier, scene without simulatedTime
ArcMixed == Archive(Named("simA"), SpeciesList(<<Sp(NoId, "b"), Sp(1, "b"), Sp(2, "b")>>),
                    SceneNone("nofield"), <<Ent(2), EntElsewhere>>,
                    PelletList(<<Zone("south", <<Pel("Egg", 2, 2)>>)>>))
\* another simulation; simulatedTime is a string
ArcOther == Archive(Named("simB"), SpeciesNone("absent"),
                    [kind |-> "value", t |-> Str("later")], <<Ent(1)>>,
                    PelletList(<<North>>))
\* the pellet stage fails after species and counts were computed
ArcPelletGarbage == [ArcA EXCEPT !.pellets = PelletNone("garbage"),
                                 !.species = SpeciesList(<<Sp(3, "a")>>)]
ArcPelletBroken  == [ArcB EXCEPT !.pellets = PelletList(<<North, ZoneNoName(<<>>)>>)]
\* the first zone's name is null: os.path.join raises
ArcNullName == [ArcA EXCEPT !.settings = [kind |-> "named", name |-> Null]]
\* not a zip container
ArcCorrupt == [ArcA EXCEPT !.readable = FALSE]

\* the archives waiting in the watched folder under SpecIngest
Library == {ArcA, ArcB, ArcNoIds, ArcMixed, ArcDefault, ArcOther, ArcPelletGarbage,
            ArcPelletBroken, ArcNullName, ArcCorrupt}

\* the archives dropped into the watched folder under Spec: one that is ingested and
\* one whose pellet stage fails (a file removed before its turn is the unreadable one)
DropLibrary == {ArcA, ArcPelletGarbage}

\* the archives of SpecExtract: every entity list and every pellets member within
\* the bounds, the other members as in ArcA
EntityMembers == {Ent(1), Ent(2), Ent(3), EntNoId, EntGarbage, EntElsewhere}

PelletObjects == {Pel("Meat", 1, 2), Pel("Plant", 5, 1), Pel("Egg", 2, 2)}

ZoneObjects ==
  {Zone("north", ps) : ps \in SeqsUpTo(PelletObjects, MaxPellets)}
  \cup {ZoneNoName(<<Pel("Meat", 1, 2)>>), ZoneNoPellets("north"),
        Zone("north", <<Pel("Plant", 5, 1), PelBroken>>)}

RECURSIVE PelletsIn(_)
PelletsIn(zs) == IF zs = << >> THEN 0 ELSE Len(Head(zs).pellets) + PelletsIn(Tail(zs))

\* up to MaxZones zones holding up to MaxPellets + 1 pellets between them
PelletMembers ==
  {PelletList(zs) : zs \in {z \in SeqsUpTo(ZoneObjects, MaxZones) :
                              PelletsIn(z) <= MaxPellets + 1}}
  \cup {PelletNone("absent"), PelletNone("garbage"), PelletNone("nokey")}

\* six entity members with identifiers 1, 1, 2, 3, 3, 3
ArcSix == [ArcA EXCEPT !.entities = <<Ent(1), Ent(1), Ent(2), Ent(3), Ent(3), Ent(3)>>]

\* no scene member; a zone without pellets and a second zone of the same name
ArcNoScene == [ArcA EXCEPT !.scene = SceneNone("absent"),
                           !.pellets = PelletList(<<Zone("north", << >>),
                                                    Zone("north", <<Pel("Plant", 5, 1)>>)>>)]

ExtractArchives ==
  {[ArcA EXCEPT !.entities = e] : e \in SeqsUpTo(EntityMembers, MaxEntities)}
  \cup {ArcSix, ArcNoScene}
  \cup {[ArcA EXCEPT !.pellets = p] : p \in PelletMembers}

\* the archives of SpecResolve: every outcome of reading the settings, scene and
\* species members, the entity and pellets members as in ArcB
SettingsMembers ==
  {Named("simA"), Named("simB"),
   [kind |-> "named", name |-> Null], [kind |-> "named", name |-> Num(1)]}
  \cup {Settings(k) : k \in {"absent", "garbage", "nozones", "emptyzones", "notlist",
                             "noname", "notobject"}}

SceneMembers ==
  {SceneAt(1), SceneAt(2), [kind |-> "value", t |-> Str("later")],
   [kind |-> "value", t |-> Null]}
  \cup {SceneNone(k) : k \in {"absent", "garbage", "nofield"}}

SpeciesMembers ==
  {SpeciesNone(k) : k \in {"absent", "garbage", "nokey", "notlist"}}
  \cup {SpeciesList(<< >>), SpeciesList(<<Sp(1, "b"), Sp(3, "b")>>),
        SpeciesList(<<Sp(NoId, "a")>>)}

ResolveArchives ==
  {[ArcB EXCEPT !.settings = st, !.scene = sc, !.species = sp] :
     st \in SettingsMembers, sc \in SceneMembers, sp \in SpeciesMembers}

\* ------------------------------------------------------------- state
VARIABLES
  folder,          \* the watched folder: directory entry -> archive content
  dropped,         \* history: every entry the folder ever held
  listed,          \* history: every entry a listing returned as an archive
  disk,            \* simulation identity -> its three persisted tables
  baseDir,         \* simulations_base_folder exists
  logFile,         \* the lines of processed_zips.txt
  processed_zips,  \* main's in-memory set
  pc,              \* "idle" (between passes), "pass" (in the for loop), "stopped"
  zip_files,       \* the entries of the current pass still to visit
  new_files_found, \* main's flag
  restarts,        \* times the poller was started again
  attempts,        \* history: process_zip calls per entry in this run of main
  hist,            \* history: the last two process_zip calls
  pass,            \* history: the current or last pass (writes: times the ledger
                   \* file was written in it)
  probe            \* the last call of a function applied on its own: its name,
                   \* its input and its result

vars == <<folder, dropped, listed, disk, baseDir, logFile, processed_zips, pc,
          zip_files, new_files_found, restarts, attempts, hist, pass, probe>>

\* the variables of the poller
pollerVars == <<folder, dropped, listed, disk, baseDir, logFile, processed_zips, pc,
                zip_files, new_files_found, restarts, attempts, hist, pass>>

NoProbe == [op |-> "none", input |-> << >>, result |-> << >>]

NoPass == [mem0 |-> {}, file0 |-> {}, found |-> {}, failed |-> FALSE, done |-> FALSE,
           writes |-> 0]

\* Save_File_Monitor.py lines 10-14 and 182: first start on an empty folder, with
\* or without the data directory of an earlier installation
Init ==
  /\ folder = << >>
  /\ dropped = {}
  /\ listed = {}
  /\ disk = [s \in Sims |-> EmptyTables]
  /\ baseDir \in BOOLEAN
  /\ logFile = {}
  /\ processed_zips = load_processed_log({})
  /\ pc = "idle"
  /\ zip_files = << >>
  /\ new_files_found = FALSE
  /\ restarts = 0
  /\ attempts = [n \in Names |-> 0]
  /\ hist = << >>
  /\ pass = NoPass
  /\ probe = NoProbe

\* ------------------------------------------------------------- environment
\* the simulation (or the user) puts a new file into the watched folder
DropFile(n, a) ==
  /\ n \notin dropped
  /\ Cardinality(dropped) < MaxDrops
  /\ folder' = [m \in DOMAIN folder \cup {n} |-> IF m = n THEN a ELSE folder[m]]
  /\ dropped' = dropped \cup {n}
  /\ UNCHANGED <<probe, listed, disk, baseDir, logFile, processed_zips, pc, zip_files,
                 new_files_found, restarts, attempts, hist, pass>>

\* a file is deleted from the watched folder
RemoveFile(n) ==
  /\ n \in DOMAIN folder
  /\ folder' = [m \in DOMAIN folder \ {n} |-> folder[m]]
  /\ UNCHANGED <<probe, dropped, listed, disk, baseDir, logFile, processed_zips, pc,
                 zip_files, new_files_found, restarts, attempts, hist, pass>>

\* ------------------------------------------------------------- main
\* lines 185-188: the listing, in whatever order os.listdir returns it
ListDir ==
  /\ pc = "idle"
  /\ \E order \in Perms({n \in DOMAIN folder : IsZipName(n)}) :
       /\ zip_files' = order
       /\ listed' = listed \cup {order[i] : i \in DOMAIN order}
       /\ pass' = [mem0 |-> processed_zips, file0 |-> logFile,
                   found |-> {order[i] : i \in DOMAIN order} \ processed_zips,
                   failed |-> FALSE, done |-> FALSE, writes |-> 0]
  /\ new_files_found' = FALSE
  /\ pc' = "pass"
  /\ UNCHANGED <<probe, folder, dropped, disk, baseDir, logFile, processed_zips, restarts,
                 attempts, hist>>

\* the membership test of line 190 left out
AlwaysNew(filename, ledger) == TRUE

\* line 190: if filename not in processed_zips
IsNew(filename, ledger) == filename \notin ledger

Call(filename, r) ==
  [name |-> filename,
   arc  |-> IF filename \in DOMAIN folder THEN folder[filename] ELSE ArcCorrupt,
   known |-> filename \in processed_zips,
   outcome |-> r.outcome, sim |-> r.sim, written |-> r.written,
   new_counts |-> r.new_counts, new_zones |-> r.new_zones,
   pre |-> disk, post |-> r.disk, run |-> restarts]

\* an outer handler that does not catch the failure to open the container
PropagatesUnreadable(outcome) == outcome = "unreadable"

\* the except branch of the pellet stage raising again instead of returning None
PropagatesPellet(outcome) == outcome = "pellet"

\* lines 18 and 177-179: the whole body of process_zip is inside try / except
\* Exception, so no outcome leaves process_zip as an exception
Propagates(outcome) == FALSE

\* lines 189-194, one iteration on an entry not in the ledger; main has no handler,
\* an exception leaving process_zip would end it
ProcessNew(lf, wf) ==
  /\ pc = "pass"
  /\ zip_files # << >>
  /\ LET filename == Head(zip_files)
         present  == filename \in DOMAIN folder
         arc      == IF present THEN folder[filename] ELSE ArcCorrupt
         r        == process_zip(disk, present /\ arc.readable, arc, lf, wf)
     IN  /\ IsNew(filename, processed_zips)
         /\ disk' = r.disk
         /\ baseDir' = (baseDir \/ r.mkdir)
         /\ attempts' = [attempts EXCEPT ![filename] = @ + 1]
         /\ hist' = IF Len(hist) < 2 THEN Append(hist, Call(filename, r))
                    ELSE <<hist[2], Call(filename, r)>>
         /\ pass' = [pass EXCEPT !.failed = @ \/ r.outcome # "saved"]
         /\ IF Propagates(r.outcome)
            THEN /\ pc' = "stopped"
                 /\ UNCHANGED <<processed_zips, new_files_found, zip_files>>
            ELSE /\ pc' = pc
                 /\ processed_zips' = processed_zips \cup {filename}
                 /\ new_files_found' = TRUE
                 /\ zip_files' = Tail(zip_files)
  /\ UNCHANGED <<probe, folder, dropped, listed, logFile, restarts>>

\* lines 189-190, one iteration on an entry already in the ledger
SkipProcessed ==
  /\ pc = "pass"
  /\ zip_files # << >>
  /\ ~IsNew(Head(zip_files), processed_zips)
  /\ zip_files' = Tail(zip_files)
  /\ UNCHANGED <<probe, folder, dropped, listed, disk, baseDir, logFile, processed_zips, pc,
                 new_files_found, restarts, attempts, hist, pass>>

\* the test of line 195 left out: the ledger file is rewritten after every pass
EndPassAlwaysWrites ==
  /\ pc = "pass"
  /\ zip_files = << >>
  /\ IF ~baseDir
     THEN /\ pc' = "stopped"
          /\ UNCHANGED <<logFile, pass>>
     ELSE /\ pc' = "idle"
          /\ logFile' = update_processed_log(processed_zips)
          /\ pass' = [pass EXCEPT !.done = TRUE, !.writes = @ + 1]
  /\ UNCHANGED <<probe, folder, dropped, listed, disk, baseDir, processed_zips, zip_files,
                 new_files_found, restarts, attempts, hist>>

\* lines 195-201 after the for loop: the batch write of the ledger, then the sleep.
\* open(log_path, "w") raises when the data directory does not exist, and nothing
\* in main catches it.
EndPass ==
  /\ pc = "pass"
  /\ zip_files = << >>
  /\ IF new_files_found /\ ~baseDir
     THEN /\ pc' = "stopped"
          /\ UNCHANGED <<logFile, pass>>
     ELSE /\ pc' = "idle"
          /\ logFile' = IF new_files_found THEN update_processed_log(processed_zips)
                        ELSE logFile
          /\ pass' = [pass EXCEPT !.done = TRUE,
                                  !.writes = IF new_files_found THEN @ + 1 ELSE @]
  /\ UNCHANGED <<probe, folder, dropped, listed, disk, baseDir, processed_zips, zip_files,
                 new_files_found, restarts, attempts, hist>>

\* the process is killed (or has stopped) and main starts again: line 182
Restart ==
  /\ restarts < MaxRestarts
  /\ restarts' = restarts + 1
  /\ processed_zips' = load_processed_log(logFile)
  /\ pc' = "idle"
  /\ zip_files' = << >>
  /\ new_files_found' = FALSE
  /\ attempts' = [n \in Names |-> 0]
  /\ pass' = NoPass
  /\ UNCHANGED <<probe, folder, dropped, listed, disk, baseDir, logFile, hist>>

NotAnArchive == [ArcCorrupt EXCEPT !.pellets = PelletNone("absent")]

ContentsFor(n) == IF IsZipName(n) THEN DropLibrary ELSE {NotAnArchive}

Next ==
  \/ \E n \in Names : \E a \in ContentsFor(n) : DropFile(n, a)
  \/ \E n \in Names : RemoveFile(n)
  \/ ListDir
  \/ ProcessNew({}, {})
  \/ SkipProcessed
  \/ EndPass
  \/ Restart

\* the poller and its environment; storage neither fails to read nor to write
Spec == Init /\ [][Next]_vars

\* up to MaxFiles archives of Library wait in the folder when main first starts
InitIngest ==
  /\ \E S \in SUBSET {n \in Names : IsZipName(n)} :
       /\ Cardinality(S) <= MaxFiles
       /\ folder \in [S -> Library]
  /\ dropped = DOMAIN folder
  /\ listed = {}
  /\ disk = [s \in Sims |-> EmptyTables]
  /\ baseDir \in BOOLEAN
  /\ logFile = {}
  /\ processed_zips = load_processed_log({})
  /\ pc = "idle"
  /\ zip_files = << >>
  /\ new_files_found = FALSE
  /\ restarts = 0
  /\ attempts = [n \in Names |-> 0]
  /\ hist = << >>
  /\ pass = NoPass
  /\ probe = NoProbe

NextIngest ==
  \/ ListDir
  \/ ProcessNew({}, {})
  \/ SkipProcessed
  \/ EndPass

\* the poller on a folder of archives ranging over Library
SpecIngest == InitIngest /\ [][NextIngest]_vars

\* one archive of ExtractArchives waits in the folder of a fresh installation
InitExtract ==
  /\ \E a \in ExtractArchives :
       folder = [n \in {[pad |-> FALSE, stem |-> "a", ext |-> "zip"]} |-> a]
  /\ dropped = DOMAIN folder
  /\ listed = {}
  /\ disk = [s \in Sims |-> EmptyTables]
  /\ baseDir = FALSE
  /\ logFile = {}
  /\ processed_zips = load_processed_log({})
  /\ pc = "idle"
  /\ zip_files = << >>
  /\ new_files_found = FALSE
  /\ restarts = 0
  /\ attempts = [n \in Names |-> 0]
  /\ hist = << >>
  /\ pass = NoPass
  /\ probe = NoProbe

NextExtract ==
  \/ ListDir
  \/ ProcessNew({}, {})
  \/ SkipProcessed
  \/ EndPass

\* the poller alone on one archive, the archive ranging over ExtractArchives
SpecExtract == InitExtract /\ [][NextExtract]_vars

\* one archive of Library waits in the folder when main first starts
InitCrash ==
  /\ \E a \in Library :
       folder = [n \in {[pad |-> FALSE, stem |-> "a", ext |-> "zip"]} |-> a]
  /\ dropped = DOMAIN folder
  /\ listed = {}
  /\ disk = [s \in Sims |-> EmptyTables]
  /\ baseDir \in BOOLEAN
  /\ logFile = {}
  /\ processed_zips = load_processed_log({})
  /\ pc = "idle"
  /\ zip_files = << >>
  /\ new_files_found = FALSE
  /\ restarts = 0
  /\ attempts = [n \in Names |-> 0]
  /\ hist = << >>
  /\ pass = NoPass
  /\ probe = NoProbe

NextCrash ==
  \/ ListDir
  \/ ProcessNew({}, {})
  \/ SkipProcessed
  \/ EndPass
  \/ Restart

\* the poller on one archive of Library, killed at any point and started again
SpecCrash == InitCrash /\ [][NextCrash]_vars

\* ArcA and one archive of ResolveArchives wait in the folder of a fresh installation
InitResolve ==
  /\ \E a \in ResolveArchives :
       folder = [n \in {[pad |-> FALSE, stem |-> "a", ext |-> "zip"],
                        [pad |-> FALSE, stem |-> "b", ext |-> "ZIP"]} |->
                  IF n.stem = "a" THEN ArcA ELSE a]
  /\ dropped = DOMAIN folder
  /\ listed = {}
  /\ disk = [s \in Sims |-> EmptyTables]
  /\ baseDir = FALSE
  /\ logFile = {}
  /\ processed_zips = load_processed_log({})
  /\ pc = "idle"
  /\ zip_files = << >>
  /\ new_files_found = FALSE
  /\ restarts = 0
  /\ attempts = [n \in Names |-> 0]
  /\ hist = << >>
  /\ pass = NoPass
  /\ probe = NoProbe

NextResolve ==
  \/ ListDir
  \/ ProcessNew({}, {})
  \/ SkipProcessed
  \/ EndPass

\* the poller on ArcA and one archive ranging over ResolveArchives, in either order
SpecResolve == InitResolve /\ [][NextResolve]_vars

\* ArcA and a second archive of the same simulation wait in the folder
InitFault ==
  /\ \E a \in {ArcB, ArcMixed} :
       folder = [n \in {[pad |-> FALSE, stem |-> "a", ext |-> "zip"],
                        [pad |-> FALSE, stem |-> "b", ext |-> "ZIP"]} |->
                  IF n.stem = "a" THEN ArcA ELSE a]
  /\ dropped = DOMAIN folder
  /\ listed = {}
  /\ disk = [s \in Sims |-> EmptyTables]
  /\ baseDir = FALSE
  /\ logFile = {}
  /\ processed_zips = load_processed_log({})
  /\ pc = "idle"
  /\ zip_files = << >>
  /\ new_files_found = FALSE
  /\ restarts = 0
  /\ attempts = [n \in Names |-> 0]
  /\ hist = << >>
  /\ pass = NoPass
  /\ probe = NoProbe

\* utils.py lines 66-69 and 74-80: in any call pd.read_parquet may raise on any of
\* the three files and to_parquet may raise on any of them
NextFault ==
  \/ ListDir
  \/ \E lf \in SUBSET TableNames : \E wf \in SUBSET TableNames : ProcessNew(lf, wf)
  \/ SkipProcessed
  \/ EndPass

\* the poller on two archives of one simulation, over storage whose reads and
\* writes can fail
SpecFault == InitFault /\ [][NextFault]_vars

\* lines 200-201 and 186-188: the sleep ends and the next pass lists the folder
Wakes == pc = "idle" /\ pc' = "pass"

\* lines 189-194: the for loop goes on to its next entry
Iterates == pc = "pass" /\ zip_files # << >> /\ zip_files' = Tail(zip_files)

\* lines 195-199: after the last entry main reaches the ledger write, which either
\* returns or raises
Finishes == pc = "pass" /\ zip_files = << >> /\ pc' \in {"idle", "stopped"}

\* lines 184-201: a poller that keeps being scheduled takes the next step of its
\* loop whenever it has one
Scheduled == WF_pc(Wakes) /\ WF_zip_files(Iterates) /\ WF_pc(Finishes)

\* the poller of SpecIngest, scheduled for ever
SpecLive == InitIngest /\ [][NextIngest]_vars /\ Scheduled

\* ------------------------------------------------------------- late archives
\* an archive file still being written when a pass lists it: the container does not
\* open yet, or it opens and its pellets member is cut short
Incomplete == {ArcCorrupt, ArcPelletGarbage}

\* the two files of the watched folder
LateNames == {[pad |-> FALSE, stem |-> "a", ext |-> "zip"],
              [pad |-> FALSE, stem |-> "b", ext |-> "ZIP"]}

\* what the two files hold once their writer is done
Final(n) == IF n.stem = "a" THEN ArcA ELSE ArcB

\* the writer of a file of the watched folder finishes it
CompleteFile ==
  /\ \E n \in DOMAIN folder :
       /\ folder[n] \in Incomplete
       /\ folder' = [folder EXCEPT ![n] = Final(n)]
  /\ UNCHANGED <<probe, dropped, listed, disk, baseDir, logFile, processed_zips, pc,
                 zip_files, new_files_found, restarts, attempts, hist, pass>>

\* two files in the watched folder, each complete or still incomplete, on an
\* installation whose data directory may not exist yet
InitLate ==
  /\ \E a \in Incomplete \cup {ArcA} : \E b \in Incomplete \cup {ArcB} :
       folder = [n \in LateNames |-> IF n.stem = "a" THEN a ELSE b]
  /\ dropped = DOMAIN folder
  /\ listed = {}
  /\ disk = [s \in Sims |-> EmptyTables]
  /\ baseDir \in BOOLEAN
  /\ logFile = {}
  /\ processed_zips = load_processed_log({})
  /\ pc = "idle"
  /\ zip_files = << >>
  /\ new_files_found = FALSE
  /\ restarts = 0
  /\ attempts = [n \in Names |-> 0]
  /\ hist = << >>
  /\ pass = NoPass
  /\ probe = NoProbe

NextLate ==
  \/ CompleteFile
  \/ ListDir
  \/ ProcessNew({}, {})
  \/ SkipProcessed
  \/ EndPass

\* the scheduled poller over files that are completed while it runs
SpecLate == InitLate /\ [][NextLate]_vars /\ Scheduled

\* ------------------------------------------------------------- lossy decode
\* The bytes of a member: line feed, blank, "A", "~", DEL, a continuation byte, the
\* lead byte of a two-byte and of a three-byte sequence, and a byte no UTF-8
\* sequence holds.
Bytes == {10, 32, 65, 126, 127, 169, 195, 226, 255}

IsCont(b) == b \in 128..191

RECURSIVE Decode(_)
\* bytes.decode('utf-8', errors='ignore'): the code points of the well-formed
\* sequences; an ill-formed sequence is dropped up to the byte that broke it, and
\* decoding resumes at that byte
Decode(bs) ==
  IF bs = << >> THEN << >>
  ELSE LET b == Head(bs)
           rest == Tail(bs)
       IN  IF b < 128 THEN <<b>> \o Decode(rest)
           ELSE IF b \in 194..223
           THEN IF rest # << >> /\ IsCont(rest[1])
                THEN <<(b - 192) * 64 + (rest[1] - 128)>> \o Decode(Tail(rest))
                ELSE Decode(rest)
           ELSE IF b \in 225..236
           THEN IF Len(rest) >= 2 /\ IsCont(rest[1]) /\ IsCont(rest[2])
                THEN <<(b - 224) * 4096 + (rest[1] - 128) * 64 + (rest[2] - 128)>>
                     \o Decode(SubSeq(rest, 3, Len(rest)))
                ELSE IF rest # << >> /\ IsCont(rest[1])
                THEN Decode(Tail(rest))
                ELSE Decode(rest)
           ELSE Decode(rest)

\* a character class that lets DEL through
CleanUpToDel(text) == SelectSeq(text, LAMBDA c : c >= 32 /\ c <= 127)

\* re.sub(r'[^\x20-\x7E]', '', input_str)
Clean(text) == SelectSeq(text, LAMBDA c : c >= 32 /\ c <= 126)

\* lines 23-25, 70-72, 89-91 and 115-117: the text handed to json.loads
Sanitize(file_bytes) == Clean(Decode(file_bytes))

\* one member is read and sanitized; a behaviour follows one member
SanitizeMember ==
  /\ probe = NoProbe
  /\ \E file_bytes \in SeqsUpTo(Bytes, MaxBytes) :
       probe' = [op |-> "sanitize", input |-> file_bytes, result |-> Sanitize(file_bytes)]
  /\ UNCHANGED pollerVars

NextDecode == SanitizeMember

\* the lossy decode applied to every byte sequence of up to MaxBytes bytes
SpecDecode == Init /\ [][NextDecode]_vars

\* ------------------------------------------------------------- read side
\* What a reader of the dashboard finds at the path of a table: no file, a file
\* pd.read_parquet raises on, a table without rows, a table with rows.
FileStates == {"missing", "unreadable", "empty", "rows"}

\* os.path.exists(file)
Exists(f) == f # "missing"

\* pd.read_parquet(file) raises
ReadRaises(f) == f \in {"missing", "unreadable"}

\* the species and counts files as one reader sees them at one moment
FilePairs == [species : FileStates, counts : FileStates]

\* utils.load_species_data: chk is what line 106 sees, now what lines 112-113 read.
\* Everything after line 110 is inside try / except Exception.
load_species_data(sim_selected, chk, now) ==
  IF ~sim_selected THEN "empty"                                      \* line 100
  ELSE IF ~Exists(chk.species) \/ ~Exists(chk.counts) THEN "empty"   \* line 108
  ELSE IF ReadRaises(now.species) \/ ReadRaises(now.counts) THEN "empty"  \* line 143
  ELSE IF now.species = "empty" \/ now.counts = "empty" THEN "empty"      \* line 116
  ELSE "value"                                                       \* line 139

\* callbacks.update_total_species, lines 73-83
update_total_species(sim_selected, f) ==
  IF ~sim_selected THEN "placeholder"          \* "Total Species Seen: N/A"
  ELSE IF ReadRaises(f) THEN "zero"            \* line 83
  ELSE IF f = "empty" THEN "zero"              \* shape[0] is 0
  ELSE "value"

\* callbacks.update_alive_species, lines 90-105
update_alive_species(sim_selected, f) ==
  IF ~sim_selected THEN "placeholder"          \* "Alive Species: N/A"
  ELSE IF ReadRaises(f) THEN "zero"            \* line 105
  ELSE IF f = "empty" THEN "zero"              \* line 98
  ELSE "value"

\* sim_tab.get_sim_tab_content, lines 22-138: the three charts are each built inside
\* their own try block
get_sim_tab_content(sim_selected, chk, now) ==
  IF ~sim_selected THEN "placeholder"                                    \* line 23
  ELSE IF load_species_data(sim_selected, chk, now) = "raises" THEN "raises"
  ELSE IF ~Exists(chk.counts) THEN "placeholder"                         \* line 33
  ELSE IF ReadRaises(now.counts) THEN "placeholder"                      \* line 40
  ELSE IF now.counts = "empty" THEN "placeholder"                        \* line 45
  ELSE "value"

\* utils.load_pellet_data is imported by zones_tab.py (line 8) and defined nowhere
\* under src/.  From the consumer contract: a missing or unreadable table is an
\* empty dataset; whether that frame has the table's columns is not fixed by it
\* (columns), as the loaders of utils return pd.DataFrame() with none.
load_pellet_data(sim_selected, f, columns) ==
  IF ~sim_selected \/ ReadRaises(f)
  THEN [rows |-> FALSE, columns |-> columns]
  ELSE [rows |-> f = "rows", columns |-> TRUE]

\* zones_tab.get_zone_list, lines 11-17: pellet_df['zone_name'] raises KeyError on a
\* frame without that column
get_zone_list(pellet_df) ==
  IF ~pellet_df.columns THEN "raises"
  ELSE IF pellet_df.rows THEN "names" ELSE "nonames"

\* zones_tab.get_zones_tab_content, lines 83-102: no guard and no try block
get_zones_tab_content(sim_selected, f, columns) ==
  LET pellet_df  == load_pellet_data(sim_selected, f, columns)
      zone_names == get_zone_list(pellet_df)
  IN  IF zone_names = "raises" THEN "raises"
      ELSE IF zone_names = "nonames" THEN "empty"    \* build_zone_section gives []
      ELSE "value"

Read(op, input, result) ==
  /\ probe' = [op |-> op, input |-> input, result |-> result]
  /\ UNCHANGED pollerVars

ReadSpecies ==
  \E sel \in BOOLEAN, chk \in FilePairs, now \in FilePairs :
    Read("load_species_data", [sel |-> sel, read |-> {now.species, now.counts}],
         load_species_data(sel, chk, now))

ReadTotal ==
  \E sel \in BOOLEAN, f \in FileStates :
    Read("update_total_species", [sel |-> sel, read |-> {f}], update_total_species(sel, f))

ReadAlive ==
  \E sel \in BOOLEAN, f \in FileStates :
    Read("update_alive_species", [sel |-> sel, read |-> {f}], update_alive_species(sel, f))

ReadSimTab ==
  \E sel \in BOOLEAN, chk \in FilePairs, now \in FilePairs :
    Read("get_sim_tab_content", [sel |-> sel, read |-> {now.counts}],
         get_sim_tab_content(sel, chk, now))

ReadZonesTab ==
  \E sel \in BOOLEAN, f \in FileStates, columns \in BOOLEAN :
    Read("get_zones_tab_content", [sel |-> sel, read |-> {f}],
         get_zones_tab_content(sel, f, columns))

NextRead ==
  \/ ReadSpecies
  \/ ReadTotal
  \/ ReadAlive
  \/ ReadSimTab
  \/ ReadZonesTab

\* the read paths of the dashboard, each applied to every state of the files it reads
SpecRead == Init /\ [][NextRead]_vars

\* ------------------------------------------------------------- properties
\* helpers of the properties below
Range(rows) == {rows[i] : i \in DOMAIN rows}
Ids(rows) == {rows[i].id : i \in DOMAIN rows} \ {NoId}
Appended(before, after) == SubSeq(after, Len(before) + 1, Len(after))
Calls == {hist[i] : i \in DOMAIN hist}
SavedCalls == {c \in Calls : c.outcome = "saved"}
RecordedSpecies(arc) == IF arc.species.kind = "list" THEN arc.species.recs ELSE << >>
FirstWith(recs, id) == recs[CHOOSE i \in DOMAIN recs :
                              /\ recs[i].id = id
                              /\ \A j \in DOMAIN recs : recs[j].id = id => i <= j]
\* the pellets member is missing, unparseable, or a zone or pellet lacks a field
PelletMemberBroken(arc) ==
  \/ arc.pellets.kind \in {"absent", "garbage"}
  \/ \E i \in DOMAIN arc.pellets.zones : ZoneRaises(arc.pellets.zones[i])

\* C1: idempotence asymmetry. When process_zip runs twice in a row on the same
\* archive content, both runs reaching the save, the second run leaves the species
\* catalog as the first left it and appends to the count and pellet tables a second
\* copy of the rows the first run appended.
C1_IdempotenceAsymmetry ==
  (Len(hist) = 2 /\ hist[1].arc = hist[2].arc
     /\ hist[1].outcome = "saved" /\ hist[2].outcome = "saved"
     /\ hist[2].pre = hist[1].post)
  => LET s  == hist[2].sim
         d0 == hist[1].pre[s]
         d1 == hist[1].post[s]
         d2 == hist[2].post[s]
     IN  /\ d2.species = d1.species
         /\ d2.counts  = d1.counts \o Appended(d0.counts, d1.counts)
         /\ d2.pellets = d1.pellets \o Appended(d0.pellets, d1.pellets)

\* C2: no partial persistence. A process_zip call on an archive whose pellets member
\* is broken writes no table of any simulation: storage after the call is storage
\* before the call.
C2_NoPartialPersistence ==
  \A c \in Calls : PelletMemberBroken(c.arc) => (c.post = c.pre /\ c.written = {})

\* C2 witness: the pellet stage failed after the species stage and the count stage
\* had both computed tables that differ from the stored ones.
C2_Witness ==
  \E c \in Calls :
    /\ c.outcome = "pellet"
    /\ SpeciesStage(c.pre[c.sim].species, c.arc.species) # c.pre[c.sim].species
    /\ SpeciesIdsOf(c.arc.entities) # << >>

\* C3: after a finished pass in which no archive failed, the ledger, in memory and
\* in the file, is the ledger from before the pass plus the N entries the pass found
\* new, and has exactly N more entries.
C3_LedgerGrowsByN ==
  (pass.done /\ ~pass.failed)
  => /\ processed_zips = pass.mem0 \cup pass.found
     /\ Cardinality(processed_zips) = Cardinality(pass.mem0) + Cardinality(pass.found)
     /\ logFile = pass.file0 \cup pass.found
     /\ Cardinality(logFile) = Cardinality(pass.file0) + Cardinality(pass.found)

\* C4: starting from an empty ledger, the ledger in memory and the ledger file hold
\* only entries that some listing of the watched folder returned as an archive.
C4_LedgerWithinHistory ==
  /\ processed_zips \subseteq listed
  /\ logFile \subseteq listed

\* C5: at most once per run. In one run of main no entry is passed to process_zip
\* twice, and an entry is passed to it only while it is not in the ledger.
C5_AtMostOnce ==
  /\ \A n \in Names : attempts[n] <= 1
  /\ \A c \in Calls : ~c.known

\* C5 witness: after a restart a pass has finished over a folder that still holds an
\* entry of the ledger loaded at startup, and the run has processed another entry.
C5_Witness ==
  /\ restarts = 1 /\ pass.done
  /\ \E n \in pass.mem0 : n \in DOMAIN folder /\ attempts[n] = 0
  /\ \E n \in Names : attempts[n] = 1

\* C6: first-write-wins union. After a process_zip call that reached the save, the
\* identifiers of the stored catalog are those stored before plus those of the
\* archive's recordedSpecies; an identifier stored before keeps its record, and a new
\* identifier has the record of its first occurrence in the archive.
C6_FirstWriteWinsUnion ==
  \A c \in SavedCalls :
    LET old  == c.pre[c.sim].species
        new  == c.post[c.sim].species
        recs == RecordedSpecies(c.arc)
    IN  /\ Ids(new) = Ids(old) \cup Ids(recs)
        /\ \A id \in Ids(old) :
             {r \in Range(new) : r.id = id} = {r \in Range(old) : r.id = id}
        /\ \A id \in Ids(recs) \ Ids(old) :
             {r \in Range(new) : r.id = id} = {FirstWith(recs, id)}

\* C6 witness: the archive redefines a stored identifier with other field values,
\* brings a new identifier, and describes some identifier twice.
C6_Witness ==
  \E c \in SavedCalls :
    LET old  == c.pre[c.sim].species
        recs == RecordedSpecies(c.arc)
    IN  /\ \E i \in DOMAIN old, j \in DOMAIN recs :
             old[i].id # NoId /\ old[i].id = recs[j].id /\ old[i].val # recs[j].val
        /\ Ids(recs) \ Ids(old) # {}
        /\ \E i, j \in DOMAIN recs :
             i < j /\ recs[i].id # NoId /\ recs[i].id = recs[j].id /\ recs[i].val # recs[j].val

Carrying(arc, x) ==
  {i \in DOMAIN arc.entities :
     /\ arc.entities[i].path = "bibites"
     /\ arc.entities[i].kind = "id"
     /\ arc.entities[i].id = x}
EntityIds(arc) == {arc.entities[i].id : i \in DOMAIN arc.entities} \ {NoId}
\* the calls that ran the extraction stages
ExtractingCalls == {c \in Calls : c.outcome \in {"pellet", "saved"}}
RECURSIVE SumCounts(_)
SumCounts(rows) == IF rows = << >> THEN 0 ELSE Head(rows).count + SumCounts(Tail(rows))

\* C8: population tally. The count rows a call emits hold exactly one row per
\* distinct identifier among the archive's entity members, the row's count is the
\* number of members carrying that identifier, every count is at least 1 and the
\* counts sum to the number of members with a readable identifier.
C8_PopulationTally ==
  \A c \in ExtractingCalls :
    LET rows == c.new_counts
        ids  == {x \in EntityIds(c.arc) : Carrying(c.arc, x) # {}}
    IN  /\ {rows[i].speciesID : i \in DOMAIN rows} = ids
        /\ Len(rows) = Cardinality(ids)
        /\ \A i \in DOMAIN rows :
             /\ rows[i].count = Cardinality(Carrying(c.arc, rows[i].speciesID))
             /\ rows[i].count >= 1
        /\ SumCounts(rows) = Cardinality(UNION {Carrying(c.arc, x) : x \in EntityIds(c.arc)})

\* C8 witness: two identifiers with different tallies next to a member that is
\* skipped.
C8_Witness ==
  \E c \in SavedCalls :
    LET rows == c.new_counts
    IN  /\ Len(rows) = 2
        /\ rows[1].count = 2 /\ rows[2].count = 1
        /\ Len(c.arc.entities) > SumCounts(rows)

\* C9: binary partition. Every pellet row a call emits is the row of one zone of
\* the pellets member, in order; its plant and meat counts add up to the number of
\* the zone's pellets, the meat count is the number of pellets whose material is
\* "Meat" and the plant count the number of all the others.
C9_BinaryPartition ==
  \A c \in SavedCalls :
    LET rows  == c.new_zones
        zones == ZonesOf(c.arc.pellets)
    IN  /\ Len(rows) = Len(zones)
        /\ \A i \in DOMAIN rows :
             LET ps == zones[i].pellets
             IN  /\ rows[i].plant_pellet_count + rows[i].meat_pellet_count = Len(ps)
                 /\ rows[i].meat_pellet_count =
                      Cardinality({j \in DOMAIN ps : ps[j].material = "Meat"})
                 /\ rows[i].plant_pellet_count =
                      Cardinality({j \in DOMAIN ps : ps[j].material # "Meat"})

\* C9 witness: a zone with a Meat pellet and a pellet that is neither Meat nor Plant.
C9_Witness ==
  \E c \in SavedCalls :
    \E i \in DOMAIN c.new_zones :
      LET ps == ZonesOf(c.arc.pellets)[i].pellets
      IN  /\ \E j \in DOMAIN ps : ps[j].material = "Meat"
          /\ \E j \in DOMAIN ps : ps[j].material \notin {"Meat", "Plant"}
          /\ c.new_zones[i].plant_pellet_count = 1

\* C10: zero-count guard. A pellets member whose zones and pellets have all their
\* fields never makes the pellet stage fail, whatever the zones hold, and in every
\* emitted row an average scale is a defined number and is 0 when its count is 0.
C10_ZeroCountGuard ==
  \A c \in Calls :
    /\ (c.outcome \in {"pellet", "saved"} /\ ~PelletMemberBroken(c.arc))
         => c.outcome = "saved"
    /\ c.outcome = "saved" =>
         \A i \in DOMAIN c.new_zones :
           LET r == c.new_zones[i]
           IN  /\ r.plant_avg_scale.den > 0
               /\ r.meat_avg_scale.den > 0
               /\ r.plant_pellet_count = 0 => r.plant_avg_scale = Zero
               /\ r.meat_pellet_count = 0 => r.meat_avg_scale = Zero

\* C10 witness: a zone without pellets next to a zone with pellets of one category.
C10_Witness ==
  \E c \in SavedCalls :
    LET rows == c.new_zones
    IN  /\ Len(rows) = 2
        /\ rows[1].plant_pellet_count = 0 /\ rows[1].meat_pellet_count = 0
        /\ rows[2].plant_pellet_count = 0 /\ rows[2].meat_pellet_count > 0
        /\ rows[2].meat_avg_scale # Zero

\* helpers of the aggregate property: the pellets of one category, and plain sums
InCategory(ps, meat) == SelectSeq(ps, LAMBDA p : (p.material = "Meat") = meat)
RECURSIVE SumAmounts(_)
SumAmounts(ps) == IF ps = << >> THEN 0 ELSE Head(ps).amount + SumAmounts(Tail(ps))
RECURSIVE SumScales(_)
SumScales(ps) == IF ps = << >> THEN 0 ELSE Head(ps).scale + SumScales(Tail(ps))

\* C11: per-zone aggregates. In every emitted pellet row, for each category the
\* total amount is the sum of the amounts of the zone's pellets of that category,
\* and when the category holds at least one pellet the average scale is the sum of
\* their scales divided by their number.
C11_PerZoneAggregates ==
  \A c \in SavedCalls :
    \A i \in DOMAIN c.new_zones :
      LET r     == c.new_zones[i]
          ps    == ZonesOf(c.arc.pellets)[i].pellets
          meat  == InCategory(ps, TRUE)
          plant == InCategory(ps, FALSE)
      IN  /\ r.meat_total_amount = SumAmounts(meat)
          /\ r.plant_total_amount = SumAmounts(plant)
          /\ Len(meat) > 0 =>
               r.meat_avg_scale.num * Len(meat) = SumScales(meat) * r.meat_avg_scale.den
          /\ Len(plant) > 0 =>
               r.plant_avg_scale.num * Len(plant) = SumScales(plant) * r.plant_avg_scale.den

\* C11 witness: the zone of two Meat pellets (amount 1, scale 2) and one Plant
\* pellet (amount 5, scale 1) emitted as meat 2 / 2 / 2 and plant 1 / 5 / 1.
C11_Witness ==
  \E c \in SavedCalls :
    \E i \in DOMAIN c.new_zones :
      LET r == c.new_zones[i]
      IN  /\ ZonesOf(c.arc.pellets)[i] = North
          /\ r.meat_pellet_count = 2 /\ r.meat_total_amount = 2
          /\ r.meat_avg_scale = Frac(2, 1)
          /\ r.plant_pellet_count = 1 /\ r.plant_total_amount = 5
          /\ r.plant_avg_scale = Frac(1, 1)

\* C12: failure isolation within a pass. The poller never stops inside the for
\* loop, whatever the archives hold; while a pass runs every entry it found new
\* is either still to be visited or was passed to process_zip, and once the loop
\* is over every such entry was passed to process_zip in that pass.
C12_FailureIsolation ==
  /\ pc = "stopped" => zip_files = << >>
  /\ \A n \in pass.found :
       \/ attempts[n] = 1
       \/ pc = "pass" /\ \E i \in DOMAIN zip_files : zip_files[i] = n

\* C12 witness: a pass of two new archives is over; the first could not be opened,
\* the second was ingested and saved after it.
C12_Witness ==
  /\ pc # "pass" /\ Cardinality(pass.found) = 2
  /\ Len(hist) = 2
  /\ hist[1].outcome = "unreadable" /\ hist[2].outcome = "saved"
  /\ attempts[hist[1].name] = 1 /\ attempts[hist[2].name] = 1

\* C13: archives are marked processed regardless of extraction failure. Once a pass
\* that found at least one entry new is over, the ledger file holds every entry the
\* pass found new, failed or not, and the poller is waiting for its next pass;
\* from every initial storage state, the data directory missing included.
C13_MarkedRegardlessOfFailure ==
  (pc # "pass" /\ pass.found # {})
  => /\ pass.found \subseteq logFile
     /\ pc = "idle"

\* C14: crash window. When the poller is killed after an archive's tables were
\* saved and before the ledger file was written, the next run ingests the archive
\* again; the count and pellet tables then hold the archive's rows twice and the
\* species catalog is the one the first ingestion stored.
C14_CrashWindow ==
  (Len(hist) = 2 /\ hist[1].run < hist[2].run
     /\ hist[1].name = hist[2].name /\ hist[1].arc = hist[2].arc
     /\ hist[1].outcome = "saved" /\ hist[2].outcome = "saved"
     /\ hist[2].pre = hist[1].post)
  => LET s  == hist[2].sim
         d0 == hist[1].pre[s]
         d1 == hist[1].post[s]
         d2 == hist[2].post[s]
     IN  /\ d2.counts  = d1.counts \o Appended(d0.counts, d1.counts)
         /\ d2.pellets = d1.pellets \o Appended(d0.pellets, d1.pellets)
         /\ d2.species = d1.species

\* helpers of the resolution properties
\* the calls that opened the container
OpenedCalls == {c \in Calls : c.outcome # "unreadable"}
\* the settings member parses, zones is a non-empty list and its first element has
\* a string under "name"
HasUsableName(arc) == arc.settings.kind = "named" /\ arc.settings.name.ty = "str"

\* C15: identity resolution. A call that opened the container runs under the name of
\* the first zone of the settings member when that name can be read, and under
\* "default_sim" in every other case: member missing, parse failure, zones missing,
\* empty or not a list, first element without a usable name.
C15_IdentityResolution ==
  \A c \in OpenedCalls :
    /\ c.outcome # "join"
    /\ SimNameOf(c.arc.settings) =
         IF HasUsableName(c.arc) THEN c.arc.settings.name ELSE Str(DEFAULT_SIM)
    /\ c.sim = IF HasUsableName(c.arc) THEN c.arc.settings.name.s ELSE DEFAULT_SIM

\* C16: the identity, time and species stages degrade without aborting the archive.
\* Whatever the settings, scene and species members hold, a call on an opened
\* archive whose pellets member is well-formed reaches the save, returns a
\* simulation identity and writes all three tables.
C16_StagesDegrade ==
  \A c \in OpenedCalls :
    ~PelletMemberBroken(c.arc)
    => /\ c.outcome = "saved"
       /\ c.written = TableNames

\* the time the scene member resolves to when only a numeric simulatedTime counts
NumericTimeOrUnknown(arc) ==
  IF arc.scene.kind = "value" /\ arc.scene.t.ty = "num" THEN arc.scene.t ELSE Unknown

\* C17: simulated-time resolution. Every count and pellet row a call emits carries
\* the scene member's simulatedTime when the member parses and the field is a
\* number, and the sentinel "Unknown" in every other case: member missing, parse
\* failure, field absent, field present but not a number.
C17_TimeResolution ==
  \A c \in ExtractingCalls :
    /\ \A i \in DOMAIN c.new_counts :
         c.new_counts[i].update_time = NumericTimeOrUnknown(c.arc)
    /\ \A i \in DOMAIN c.new_zones :
         c.new_zones[i].update_time = NumericTimeOrUnknown(c.arc)

\* the species member is absent, or present without a non-empty recordedSpecies array
NoRecordedSpecies(arc) ==
  \/ arc.species.kind \in {"absent", "nokey", "notlist"}
  \/ arc.species.kind = "list" /\ arc.species.recs = << >>

\* C18: when the species member is absent or has no non-empty recordedSpecies array,
\* a call that reached the save stores the species catalog exactly as it was loaded,
\* and the count and pellet tables are the stored ones with the archive's rows
\* appended.
C18_CatalogUnchanged ==
  \A c \in SavedCalls :
    NoRecordedSpecies(c.arc)
    => /\ c.post[c.sim].species = c.pre[c.sim].species
       /\ c.post[c.sim].counts  = c.pre[c.sim].counts \o c.new_counts
       /\ c.post[c.sim].pellets = c.pre[c.sim].pellets \o c.new_zones

\* helpers of the recovery property
\* an entity member under bibites/ that does not parse or has no species identifier
Skipped(m) == m.path = "bibites" /\ m.kind # "id"
WithoutSkipped(arc) == SelectSeq(arc.entities, LAMBDA m : ~Skipped(m))

\* C19: per-entity recovery. The count rows a call emits are those of the archive
\* with its unparseable and identifier-less entity members taken out, so such a
\* member adds to no count and changes no other member's tally; and when the
\* pellets member is well-formed the call reaches the save and writes its tables.
C19_PerEntityRecovery ==
  \A c \in ExtractingCalls :
    /\ c.new_counts = CountStage(<< >>, WithoutSkipped(c.arc), UpdateTimeOf(c.arc.scene))
    /\ SumCounts(c.new_counts) = Cardinality(UNION {Carrying(c.arc, x) : x \in EntityIds(c.arc)})
    /\ ~PelletMemberBroken(c.arc) => (c.outcome = "saved" /\ c.written = TableNames)

\* C19 witness: an unparseable member and a member without identifier stand before
\* two members of one species, which are counted and saved.
C19_Witness ==
  \E c \in SavedCalls :
    /\ Len(c.arc.entities) = 4 /\ c.arc.entities[1] = EntGarbage
    /\ \E i \in DOMAIN c.arc.entities : c.arc.entities[i] = EntNoId
    /\ Len(c.new_counts) = 1 /\ c.new_counts[1].count = 2
    /\ c.post[c.sim].counts = c.new_counts

\* C20: batch ledger write. The ledger file is not written while the for loop of a
\* pass runs; a pass writes it at most once, and then the pass is over, it found at
\* least one entry new and every such entry was passed to process_zip; a pass that
\* found nothing new does not write the file and leaves it as it was.
C20_BatchLedgerWrite ==
  /\ pass.writes <= 1
  /\ pc = "pass" => (pass.writes = 0 /\ logFile = pass.file0)
  /\ pass.writes = 1 =>
       /\ pass.done /\ pass.found # {}
       /\ \A n \in pass.found : attempts[n] = 1
  /\ (pass.done /\ pass.found = {}) => (pass.writes = 0 /\ logFile = pass.file0)

\* C20 witness: a pass that found two new entries is over and wrote the ledger
\* file once, with both entries.
C20_Witness ==
  /\ pass.done /\ pass.writes = 1
  /\ Cardinality(pass.found) = 2
  /\ pass.found \subseteq logFile

\* before is the beginning of after, row by row
IsPrefix(before, after) ==
  Len(before) <= Len(after) /\ SubSeq(after, 1, Len(before)) = before

\* C21: no row is ever deleted. Whatever the outcome of loading the stored tables,
\* after a process_zip call every count row and pellet row stored before the call
\* is still stored, in the same order, and every species identifier of the stored
\* catalog is still in it.
C21_NoRowDeleted ==
  \A c \in Calls : \A s \in Sims :
    /\ IsPrefix(c.pre[s].counts, c.post[s].counts)
    /\ IsPrefix(c.pre[s].pellets, c.post[s].pellets)
    /\ Ids(c.pre[s].species) \subseteq Ids(c.post[s].species)

\* C22: consumer contract. No read path of the dashboard ends in an unhandled
\* error, and a read path whose table is missing, unreadable or without rows at
\* the moment of the read yields an empty dataset, a zero or a placeholder.
C22_ConsumerContract ==
  probe.op # "none"
  => /\ probe.result # "raises"
     /\ probe.input.read \cap {"missing", "unreadable", "empty"} # {}
          => probe.result \in {"empty", "zero", "placeholder"}

\* the bytes 0x20..0x7E of a byte sequence, in order
PrintableOf(bs) == SelectSeq(bs, LAMBDA b : b \in 32..126)

\* C23: lossy decode. The text handed to the JSON parser holds only characters of
\* 0x20..0x7E, it is the input's printable ASCII characters in their order, and
\* sanitizing it once more (as text, or encoded again) returns it unchanged.
C23_LossyDecode ==
  probe.op = "sanitize"
  => /\ \A i \in DOMAIN probe.result : probe.result[i] \in 32..126
     /\ probe.result = PrintableOf(probe.input)
     /\ Clean(probe.result) = probe.result
     /\ Sanitize(probe.result) = probe.result

\* C23 witness: a member with a well-formed multi-byte character, a control
\* character or DEL, and printable characters, of which only the latter are kept.
C23_Witness ==
  /\ probe.op = "sanitize"
  /\ Len(Decode(probe.input)) < Len(probe.input)
  /\ \E i \in DOMAIN Decode(probe.input) : Decode(probe.input)[i] > 127
  /\ \E i \in DOMAIN probe.input : probe.input[i] \in {10, 127}
  /\ Len(probe.result) = 1

\* C24: liveness of intake. A poller that keeps being scheduled starts a pass again
\* and again, and every archive entry a pass finds new is eventually passed to
\* process_zip and is in the ledger.
C24_IntakeLiveness ==
  /\ []<>(pc = "idle")
  /\ \A n \in Names :
       [](n \in pass.found => <>(attempts[n] = 1 /\ n \in processed_zips))

\* C25: one archive, one time, one row per zone. The count rows and the pellet rows
\* a saving call appends all carry one update_time, the time read from the scene
\* member or the sentinel when none can be read, and the call appends exactly one
\* pellet row per zone object of the pellets member, in order and under the zone's
\* name, zones without pellets and zones repeating a name included; a table the call
\* writes is the stored table followed by these rows.
C25_OneTimeOneRowPerZone ==
  \A c \in SavedCalls :
    LET t     == IF c.arc.scene.kind = "value" /\ c.arc.scene.t.ty # "null"
                 THEN c.arc.scene.t ELSE Unknown
        zones == IF c.arc.pellets.kind = "list" THEN c.arc.pellets.zones ELSE << >>
    IN  /\ \A i \in DOMAIN c.new_counts : c.new_counts[i].update_time = t
        /\ \A i \in DOMAIN c.new_zones : c.new_zones[i].update_time = t
        /\ Len(c.new_zones) = Len(zones)
        /\ \A i \in DOMAIN zones : c.new_zones[i].zone_name = zones[i].zone
        /\ "counts" \in c.written =>
             c.post[c.sim].counts = c.pre[c.sim].counts \o c.new_counts
        /\ "pellets" \in c.written =>
             c.post[c.sim].pellets = c.pre[c.sim].pellets \o c.new_zones

\* C25 witness: an archive without scene member whose pellets member holds a zone
\* without pellets and a second zone of the same name is saved: one count row and
\* two pellet rows, all three under the sentinel time.
C25_Witness ==
  \E c \in SavedCalls :
    /\ c.arc.scene.kind = "absent"
    /\ Len(c.arc.pellets.zones) = 2
    /\ c.arc.pellets.zones[1].pellets = << >>
    /\ c.arc.pellets.zones[1].zone = c.arc.pellets.zones[2].zone
    /\ Len(c.new_zones) = 2 /\ Len(c.new_counts) >= 1
    /\ \A i \in DOMAIN c.new_zones : c.new_zones[i].update_time = Unknown
    /\ \A i \in DOMAIN c.new_counts : c.new_counts[i].update_time = Unknown
    /\ c.post[c.sim].pellets = c.new_zones

\* the species stage leaves its try block through the except branch of line 64: the
\* member is missing or does not parse, or the merged frame has no speciesID column
SpeciesStageRaises(species_df, member) ==
  \/ member.kind \in {"absent", "garbage"}
  \/ member.kind = "list" /\ member.recs # << >>
       /\ ~HasIdColumn(species_df \o member.recs)

\* C26: when the species stage of a call raises, the catalog the call stores is the
\* catalog it loaded: no merged, non-deduplicated catalog is written.
C26_FailedSpeciesStageKeepsCatalog ==
  \A c \in SavedCalls :
    SpeciesStageRaises(c.pre[c.sim].species, c.arc.species)
    => c.post[c.sim].species = c.pre[c.sim].species

\* C27: ledger round trip. Reading back the file written for the ledger the poller
\* holds gives that ledger, blank-padded archive names included; and no entry that
\* is in the ledger file when a pass starts is passed to process_zip in that pass.
C27_LedgerRoundTrip ==
  /\ load_processed_log(update_processed_log(processed_zips)) = processed_zips
  /\ \A c \in Calls :
       (c.run = restarts /\ c.name \in pass.found) => c.name \notin pass.file0

\* C28: per-identity isolation. A call of process_zip leaves the three tables of
\* every simulation other than the one it resolved as they were, and the tables of
\* its own simulation hold afterwards only rows that were in those tables before
\* the call or that the call drew from the archive.
C28_PerIdentityIsolation ==
  \A c \in Calls :
    /\ \A s \in Sims \ {c.sim} : c.post[s] = c.pre[s]
    /\ Range(c.post[c.sim].counts)
         \subseteq Range(c.pre[c.sim].counts) \cup Range(c.new_counts)
    /\ Range(c.post[c.sim].pellets)
         \subseteq Range(c.pre[c.sim].pellets) \cup Range(c.new_zones)
    /\ Range(c.post[c.sim].species)
         \subseteq Range(c.pre[c.sim].species) \cup Range(RecordedSpecies(c.arc))

\* C28 witness: two archives of different simulations were saved one after the
\* other; the second call found the rows of the first in storage and left them as
\* they were, and stored its own rows under its own simulation.
C28_Witness ==
  /\ Len(hist) = 2
  /\ hist[1].outcome = "saved" /\ hist[2].outcome = "saved"
  /\ hist[1].sim # hist[2].sim
  /\ hist[2].pre[hist[1].sim].counts # << >>
  /\ hist[2].post[hist[1].sim] = hist[1].post[hist[1].sim]
  /\ hist[2].post[hist[2].sim].counts = hist[2].new_counts
  /\ hist[2].new_counts # << >>

\* the table ends with the rows the call drew from the archive
Reflects(table, rows) ==
  /\ Len(table) >= Len(rows)
  /\ SubSeq(table, Len(table) - Len(rows) + 1, Len(table)) = rows

\* C29: all-or-nothing across the three tables. After a call of process_zip either
\* the three tables of its simulation are as they were before the call, or all
\* three reflect the archive: the catalog holds the archive's species identifiers,
\* the count table ends with the archive's count rows and the pellet table with its
\* pellet rows; this also when the write of a single table fails.
C29_AllOrNothing ==
  \A c \in Calls :
    \/ c.post[c.sim] = c.pre[c.sim]
    \/ /\ Ids(RecordedSpecies(c.arc)) \subseteq Ids(c.post[c.sim].species)
       /\ Reflects(c.post[c.sim].counts, c.new_counts)
       /\ Reflects(c.post[c.sim].pellets, c.new_zones)

\* the file holds an archive on which every stage of process_zip, the save
\* included, would succeed if it were processed now
WellFormed(n) ==
  LET r == process_zip(disk, folder[n].readable, folder[n], {}, {})
  IN  r.outcome = "saved" /\ r.written = TableNames /\ r.new_counts # << >>
                         /\ r.new_zones # << >>

\* the count and pellet rows of the file's archive are in the tables of its simulation
Present(n) ==
  LET r == process_zip(disk, folder[n].readable, folder[n], {}, {})
  IN  /\ Range(r.new_counts) \subseteq Range(disk[r.sim].counts)
      /\ Range(r.new_zones) \subseteq Range(disk[r.sim].pellets)

\* the entry was listed by the running pass, is not in the ledger and waits for
\* its turn in the for loop
Awaiting(n) ==
  /\ pc = "pass"
  /\ n \notin processed_zips
  /\ \E i \in DOMAIN zip_files : zip_files[i] = n

\* C30 as stated: no archive is lost. A file of the watched folder that is complete
\* and well-formed from some moment on has its count and pellet rows in the tables
\* of its simulation at some later moment, whatever it held when first listed.
C30_NoArchiveLost ==
  \A n \in LateNames : WellFormed(n) ~> Present(n)

\* C30, amended: no archive that is complete when its turn comes is lost. A file
\* that a pass listed, that is not in the ledger and that is complete and
\* well-formed has its count and pellet rows in the tables of its simulation at
\* some later moment. A file that was passed to process_zip while incomplete or
\* unreadable is in the ledger, is not passed to process_zip again, and its rows
\* are not in the tables even after it became complete.
C30_NoListedArchiveLost ==
  /\ \A n \in LateNames : (Awaiting(n) /\ WellFormed(n)) ~> Present(n)
  /\ [](\A c \in Calls :
         /\ c.name \in processed_zips
         /\ attempts[c.name] = 1
         /\ (c.outcome # "saved" /\ WellFormed(c.name)) => ~Present(c.name))

\* C30 witness: one file was complete when its turn came and its rows are stored;
\* the other was passed to process_zip while incomplete, was completed afterwards,
\* and a later pass has skipped it: its rows are not stored.
C30_Witness ==
  /\ pc = "idle" /\ pass.done /\ pass.found = {}
  /\ \E c1, c2 \in Calls :
       /\ c1.outcome = "saved" /\ Present(c1.name)
       /\ c2.outcome # "saved" /\ WellFormed(c2.name) /\ ~Present(c2.name)
       /\ c2.name \in processed_zips

====
